---- MODULE Spec2Model ----
(***************************************************************************)
(* Model of the EasySpeak GNOME Shell extension (src/extension.js): the    *)
(* grid overlay, the virtual pointer device and the gestures sent to it.   *)
(* Times are in microseconds, as returned by GLib.get_monotonic_time().    *)
(***************************************************************************)
EXTENDS Integers, Sequences, FiniteSets, TLC

VARIABLES enabled,      \* EasySpeakGridExtension._grid is non-null (D-Bus object exported)
          container,    \* GridOverlay.container: Null or <<the overlay widget>>
          bounds,       \* GridOverlay.bounds
          screenW,      \* GridOverlay.screenW
          screenH,      \* GridOverlay.screenH
          pointer,      \* GridOverlay._pointer: NoDevice or the id of the virtual device
          dragging,     \* GridOverlay._dragging
          live,         \* number of overlay containers constructed and not destroyed
          ndev,         \* number of virtual pointer devices created by the process
          monitor,      \* Main.layoutManager.primaryMonitor
          now,          \* GLib.get_monotonic_time()
          last,         \* record of the most recent RPC call
          ptrCalls,     \* the last two pointer-producing calls on this GridOverlay, newest last
          held,         \* the primary button of this GridOverlay's virtual device is down
          cacheDir,     \* the directory ~/.cache/easyspeak exists
          file,         \* the file at ScreenshotManager._path: "absent" or "present"
          idle,         \* idle sources added by takeScreenshotSync and not yet dispatched
          running,      \* captures waiting for screenshot_area to settle
          taken,        \* number of TakeScreenshot calls so far
          attempts,     \* number of times _captureViaScreenshotClass was entered
          errors,       \* number of "capture error" entries in the log
          del,          \* what the stale-file delete of the last TakeScreenshot did
          capAfter,     \* the RPC call that preceded the most recent capture
          nWorkspaces,  \* global.workspace_manager.get_n_workspaces()
          activeWs,     \* global.workspace_manager.get_active_workspace_index()
          windows,      \* global.get_window_actors(), in stacking order
          focus,        \* global.display.focus_window: 0 or a position in windows
          workAreas     \* Main.layoutManager.getWorkAreaForMonitor, by monitor index

gridVars == <<enabled, container, bounds, screenW, screenH, pointer, dragging,
              live, ndev, monitor, now, last, ptrCalls, held>>

shotVars == <<cacheDir, file, idle, running, taken, attempts, errors, del,
              capAfter>>

wmVars == <<nWorkspaces, activeWs, windows, focus, workAreas>>

vars == <<gridVars, shotVars, wmVars>>

-----------------------------------------------------------------------------
(* Bounds of the model *)

MaxTicks == 1
ClockStep == 20000
MaxDevices == 2
MaxShots == 2
MaxWorkspaces == 3

Points == {<<10, 10>>, <<200, 200>>}
ShowArgs == {<<0, 0>>, <<800, 600>>}
Dirs == {"up", "down", "left", "right", "bogus"}
Clicks == {-1, 0, 1, 3}
Rects == {<<0, 0, 640, 360>>, <<-5, 700, 0, 3>>}

\* the inputs of the methods a specification is not about
OnePoint == <<10, 10>>
OneShow == <<800, 600>>
OneRect == <<0, 0, 640, 360>>
FewClicks == {0, 2}
Monitors == {[x |-> 0, y |-> 0, width |-> 1920, height |-> 1080],
             [x |-> 1920, y |-> 0, width |-> 1280, height |-> 720]}

\* the primary monitor when the shell starts
FirstMonitor == [x |-> 1920, y |-> 0, width |-> 1280, height |-> 720]

-----------------------------------------------------------------------------
(* Values *)

Null == <<>>
NoDevice == 0

\* the arguments of a call; the ones a method does not take are 0 or ""
Args(x, y, width, height, direction, clicks) ==
    [x |-> x, y |-> y, width |-> width, height |-> height,
     direction |-> direction, clicks |-> clicks, index |-> 0, title |-> <<>>]

NoArgs == Args(0, 0, 0, 0, "", 0)

\* the argument of SwitchWorkspace
Index(i) == [NoArgs EXCEPT !.index = i]

\* the argument of FocusWindow, a string as the sequence of its characters
Title(t) == [NoArgs EXCEPT !.title = t]

NoCall ==
    [op |-> "none", args |-> NoArgs, t0 |-> 0, shown |-> FALSE, drag |-> FALSE,
     out |-> <<>>, threw |-> FALSE, attempted |-> FALSE, ret |-> <<>>,
     drawn |-> 0, logged |-> 0, did |-> <<>>, seq |-> 0]

PointerOps == {"Click", "DoubleClick", "RightClick", "MiddleClick",
               "MoveTo", "StartDrag", "EndDrag", "Scroll"}

Motion(t, x, y) ==
    [kind |-> "motion", time |-> t, x |-> x, y |-> y,
     button |-> "", state |-> "", dx |-> 0, dy |-> 0]

Button(t, b, st) ==
    [kind |-> "button", time |-> t, x |-> 0, y |-> 0,
     button |-> b, state |-> st, dx |-> 0, dy |-> 0]

ScrollEvent(t, dx, dy) ==
    [kind |-> "scroll", time |-> t, x |-> 0, y |-> 0,
     button |-> "", state |-> "", dx |-> dx, dy |-> dy]

\* An event as it reaches the compositor: which device sent it, and whether
\* the overlay container existed at that moment.
Delivered(ev, dev, ov) ==
    [kind |-> ev.kind, time |-> ev.time, x |-> ev.x, y |-> ev.y,
     button |-> ev.button, state |-> ev.state, dx |-> ev.dx, dy |-> ev.dy,
     dev |-> dev, overlay |-> ov]

-----------------------------------------------------------------------------
(* GridOverlay: each method is an operator from the state at the start of  *)
(* the call to the state at its end.  The state record holds the fields of *)
(* the object, the environment it touches (live, ndev) and what the call   *)
(* has done so far: out (events delivered), threw, attempted               *)
(* (create_virtual_device was invoked), ret (the value returned) and drawn *)
(* (the number of times _draw ran).                                        *)

\* constructor
NewGrid ==
    [container |-> Null, bounds |-> <<0, 0, 1920, 1080>>,
     screenW |-> 1920, screenH |-> 1080,
     pointer |-> NoDevice, dragging |-> FALSE]

\* _getPointer creating a device on every call
getPointerFresh(s, createOk) ==
    IF createOk
    THEN [s EXCEPT !.pointer = s.ndev + 1, !.ndev = s.ndev + 1,
                   !.attempted = TRUE]
    ELSE [s EXCEPT !.threw = TRUE, !.attempted = TRUE]

\* _getPointer keeping the failed device, so that no later call tries again
getPointerKeepsBroken(s, createOk) ==
    IF s.pointer = NoDevice
    THEN IF createOk
         THEN [s EXCEPT !.pointer = s.ndev + 1, !.ndev = s.ndev + 1,
                        !.attempted = TRUE]
         ELSE [s EXCEPT !.pointer = -1, !.threw = TRUE, !.attempted = TRUE]
    ELSE s

\* _getPointer; createOk: whether seat.create_virtual_device succeeds
getPointer(s, createOk) ==
    IF s.pointer = NoDevice
    THEN IF createOk
         THEN [s EXCEPT !.pointer = s.ndev + 1, !.ndev = s.ndev + 1,
                        !.attempted = TRUE]
         ELSE [s EXCEPT !.threw = TRUE, !.attempted = TRUE]
    ELSE s

\* pointer.notify_absolute_motion / notify_button / notify_scroll_continuous
notify(s, ev) ==
    [s EXCEPT !.out = Append(s.out, Delivered(ev, s.pointer, s.container # Null))]

\* hide destroying a container whether it has one or not
hideAlways(s) ==
    [s EXCEPT !.container = Null, !.live = s.live - 1]

\* hide ending a drag with the overlay
hideEndsDrag(s) ==
    IF s.container # Null
    THEN [s EXCEPT !.container = Null, !.live = s.live - 1, !.dragging = FALSE]
    ELSE s

\* hide
hide(s) ==
    IF s.container # Null
    THEN [s EXCEPT !.container = Null, !.live = s.live - 1]
    ELSE s

\* the larger and the smaller of two integers (Math.max, Math.min)
Max(a, b) == IF a >= b THEN a ELSE b

Min(a, b) == IF a <= b THEN a ELSE b

\* A child of the container.  Positions and sizes are kept doubled (x2 is
\* twice x, and so on), since _draw halves odd numbers; a label has a text
\* and a font size and takes its size from them.
Widget(kind, x2, y2, w2, h2) ==
    [kind |-> kind, x2 |-> x2, y2 |-> y2, w2 |-> w2, h2 |-> h2,
     text |-> 0, font |-> 0]

Label(num, fontSize, x2, y2) ==
    [kind |-> "label", x2 |-> x2, y2 |-> y2, w2 |-> 0, h2 |-> 0,
     text |-> num, font |-> fontSize]

\* the children one _draw adds for the bounds b
Rendered(b) ==
    LET bx == b[1]
        by == b[2]
        bw == b[3]
        bh == b[4]
        cellW == bw \div 3
        cellH == bh \div 3
        fontSize == Max(24, Min(72, Min(cellW, cellH) \div 3))
        centerX == bx + (bw \div 2)
        centerY == by + (bh \div 2)
        crossSize == Min(50, Min(bw, bh) \div 3)
        crossThick == 4
    IN  <<Widget("backdrop", 2 * bx, 2 * by, 2 * bw, 2 * bh)>>
        \o [i \in 1..2 |->
               Widget("line", 2 * (bx + i * cellW - 1), 2 * by, 2 * 3, 2 * bh)]
        \o [i \in 1..2 |->
               Widget("line", 2 * bx, 2 * (by + i * cellH - 1), 2 * bw, 2 * 3)]
        \o [num \in 1..9 |->
               LET row == (num - 1) \div 3
                   col == (num - 1) % 3
                   zoneX == bx + col * cellW
                   zoneY == by + row * cellH
               IN  Label(num, fontSize,
                         2 * zoneX + cellW - fontSize,
                         2 * zoneY + cellH - fontSize)]
        \o <<Widget("outline", 2 * centerX - crossSize - 2 * 2,
                               2 * centerY - crossThick - 2 * 2,
                               2 * (crossSize + 4), 2 * (crossThick + 4)),
             Widget("outline", 2 * centerX - crossThick - 2 * 2,
                               2 * centerY - crossSize - 2 * 2,
                               2 * (crossThick + 4), 2 * (crossSize + 4)),
             Widget("cross", 2 * centerX - crossSize, 2 * centerY - crossThick,
                             2 * crossSize, 2 * crossThick),
             Widget("cross", 2 * centerX - crossThick, 2 * centerY - crossSize,
                             2 * crossThick, 2 * crossSize)>>

\* _draw without destroy_all_children
drawAccumulates(s) ==
    [s EXCEPT !.container[1].children =
                  s.container[1].children \o Rendered(s.bounds),
              !.drawn = s.drawn + 1]

\* _draw: destroy_all_children, then add the elements of one render
draw(s) ==
    [s EXCEPT !.container[1].children = Rendered(s.bounds),
              !.drawn = s.drawn + 1]

\* show trusting the size it is given
showRequestedSize(s, width, height, mon) ==
    LET s1 == IF s.container # Null THEN hide(s) ELSE s
        s2 == [s1 EXCEPT !.screenW = width, !.screenH = height]
        s3 == [s2 EXCEPT !.bounds = <<0, 0, s2.screenW, s2.screenH>>]
        s4 == [s3 EXCEPT !.container = <<[x |-> mon.x, y |-> mon.y,
                                          width |-> s3.screenW,
                                          height |-> s3.screenH,
                                          children |-> <<>>]>>,
                         !.live = s3.live + 1]
    IN  draw(s4)

\* show
show(s, width, height, mon) ==
    LET s1 == IF s.container # Null THEN hide(s) ELSE s
        s2 == [s1 EXCEPT !.screenW = mon.width, !.screenH = mon.height]
        s3 == [s2 EXCEPT !.bounds = <<0, 0, s2.screenW, s2.screenH>>]
        s4 == [s3 EXCEPT !.container = <<[x |-> mon.x, y |-> mon.y,
                                          width |-> s3.screenW,
                                          height |-> s3.screenH,
                                          children |-> <<>>]>>,
                         !.live = s3.live + 1]
    IN  draw(s4)

\* getScreenSize
getScreenSize(s, mon) ==
    [s EXCEPT !.ret = <<mon.width, mon.height>>]

\* update without its first line: the bounds are stored, then _draw fails on
\* the missing container
updateUnguarded(s, x, y, width, height) ==
    IF s.container = Null
    THEN [s EXCEPT !.bounds = <<x, y, width, height>>, !.threw = TRUE]
    ELSE draw([s EXCEPT !.bounds = <<x, y, width, height>>])

\* update keeping the rectangle on the screen, as _clampToWorkArea would
updateClamped(s, x, y, width, height) ==
    IF s.container = Null
    THEN s
    ELSE draw([s EXCEPT !.bounds =
                   <<Max(0, Min(x, s.screenW - width)),
                     Max(0, Min(y, s.screenH - height)), width, height>>])

\* update
update(s, x, y, width, height) ==
    IF s.container = Null
    THEN s
    ELSE draw([s EXCEPT !.bounds = <<x, y, width, height>>])

\* click / rightClick / middleClick share their shape; b is the button
clickWith(s, x, y, t, b, createOk) ==
    LET s1 == hide(s)
        s2 == getPointer(s1, createOk)
    IN  IF s2.threw THEN s2
        ELSE notify(notify(notify(s2, Motion(t, x, y)),
                           Button(t + 5000, b, "PRESSED")),
                    Button(t + 10000, b, "RELEASED"))

click(s, x, y, t, createOk) == clickWith(s, x, y, t, "PRIMARY", createOk)

rightClick(s, x, y, t, createOk) == clickWith(s, x, y, t, "SECONDARY", createOk)

\* middleClick pressing the middle button and releasing the primary one
middleClickMixed(s, x, y, t, createOk) ==
    LET s1 == hide(s)
        s2 == getPointer(s1, createOk)
    IN  IF s2.threw THEN s2
        ELSE notify(notify(notify(s2, Motion(t, x, y)),
                           Button(t + 5000, "MIDDLE", "PRESSED")),
                    Button(t + 10000, "PRIMARY", "RELEASED"))

middleClick(s, x, y, t, createOk) == clickWith(s, x, y, t, "MIDDLE", createOk)

\* doubleClick moving the pointer again before the second click
doubleClickMovesTwice(s, x, y, t, createOk) ==
    LET s1 == hide(s)
        s2 == getPointer(s1, createOk)
    IN  IF s2.threw THEN s2
        ELSE notify(notify(notify(notify(notify(notify(s2,
                 Motion(t, x, y)),
                 Button(t + 5000, "PRIMARY", "PRESSED")),
                 Button(t + 10000, "PRIMARY", "RELEASED")),
                 Motion(t + 60000, x, y)),
                 Button(t + 60000, "PRIMARY", "PRESSED")),
                 Button(t + 65000, "PRIMARY", "RELEASED"))

doubleClick(s, x, y, t, createOk) ==
    LET s1 == hide(s)
        s2 == getPointer(s1, createOk)
    IN  IF s2.threw THEN s2
        ELSE notify(notify(notify(notify(notify(s2,
                 Motion(t, x, y)),
                 Button(t + 5000, "PRIMARY", "PRESSED")),
                 Button(t + 10000, "PRIMARY", "RELEASED")),
                 Button(t + 60000, "PRIMARY", "PRESSED")),
                 Button(t + 65000, "PRIMARY", "RELEASED"))

\* moveTo hiding the overlay like the click methods
moveToHides(s, x, y, t, createOk) ==
    LET s0 == hide(s)
        s1 == getPointer(s0, createOk)
    IN  IF s1.threw THEN s1
        ELSE notify(s1, Motion(t, x, y))

moveTo(s, x, y, t, createOk) ==
    LET s1 == getPointer(s, createOk)
    IN  IF s1.threw THEN s1
        ELSE notify(s1, Motion(t, x, y))

\* startDrag hiding the overlay like the click methods
startDragHides(s, x, y, t, createOk) ==
    LET s0 == hide(s)
        s1 == getPointer(s0, createOk)
    IN  IF s1.threw THEN s1
        ELSE [notify(notify(s1, Motion(t, x, y)),
                     Button(t + 5000, "PRIMARY", "PRESSED"))
              EXCEPT !.dragging = TRUE]

\* startDrag refusing to start a drag during a drag
startDragOnce(s, x, y, t, createOk) ==
    IF s.dragging THEN s
    ELSE LET s1 == getPointer(s, createOk)
         IN  IF s1.threw THEN s1
             ELSE [notify(notify(s1, Motion(t, x, y)),
                          Button(t + 5000, "PRIMARY", "PRESSED"))
                   EXCEPT !.dragging = TRUE]

startDrag(s, x, y, t, createOk) ==
    LET s1 == getPointer(s, createOk)
    IN  IF s1.threw THEN s1
        ELSE [notify(notify(s1, Motion(t, x, y)),
                     Button(t + 5000, "PRIMARY", "PRESSED"))
              EXCEPT !.dragging = TRUE]

\* endDrag without its first line
endDragUnguarded(s, x, y, t, createOk) ==
    LET s1 == hide(s)
        s2 == getPointer(s1, createOk)
    IN  IF s2.threw THEN s2
        ELSE [notify(notify(s2, Motion(t, x, y)),
                     Button(t + 5000, "PRIMARY", "RELEASED"))
              EXCEPT !.dragging = FALSE]

endDrag(s, x, y, t, createOk) ==
    IF ~s.dragging THEN s
    ELSE LET s1 == hide(s)
             s2 == getPointer(s1, createOk)
         IN  IF s2.threw THEN s2
             ELSE [notify(notify(s2, Motion(t, x, y)),
                          Button(t + 5000, "PRIMARY", "RELEASED"))
                   EXCEPT !.dragging = FALSE]

\* the switch of scroll: <<dx, dy>> for a direction string
scrollDelta(direction) ==
    CASE direction = "up"    -> <<0, -1>>
      [] direction = "down"  -> <<0, 1>>
      [] direction = "left"  -> <<-1, 0>>
      [] direction = "right" -> <<1, 0>>
      [] OTHER               -> <<0, 0>>

\* the for loop of scroll running while i <= clicks
RECURSIVE scrollLoopInclusive(_, _, _, _, _)
scrollLoopInclusive(s, i, clicks, t, d) ==
    IF i <= clicks
    THEN scrollLoopInclusive(notify(s, ScrollEvent(t + (i * 50000), d[1], d[2])),
                             i + 1, clicks, t, d)
    ELSE s

\* the for loop of scroll, from iteration i on
RECURSIVE scrollLoop(_, _, _, _, _)
scrollLoop(s, i, clicks, t, d) ==
    IF i < clicks
    THEN scrollLoop(notify(s, ScrollEvent(t + (i * 50000), d[1], d[2])),
                    i + 1, clicks, t, d)
    ELSE s

\* scroll hiding the overlay only after the pointer has moved
scrollHidesLate(s, x, y, direction, clicks, t, createOk) ==
    LET s1 == getPointer(s, createOk)
    IN  IF s1.threw THEN s1
        ELSE scrollLoop(hide(notify(s1, Motion(t, x, y))), 0, clicks, t,
                        scrollDelta(direction))

\* scroll returning at once when there is nothing to scroll
scrollSkipsEmpty(s, x, y, direction, clicks, t, createOk) ==
    IF clicks <= 0 THEN s
    ELSE LET s1 == hide(s)
             s2 == getPointer(s1, createOk)
         IN  IF s2.threw THEN s2
             ELSE scrollLoop(notify(s2, Motion(t, x, y)), 0, clicks, t,
                             scrollDelta(direction))

scroll(s, x, y, direction, clicks, t, createOk) ==
    LET s1 == hide(s)
        s2 == getPointer(s1, createOk)
    IN  IF s2.threw THEN s2
        ELSE scrollLoop(notify(s2, Motion(t, x, y)), 0, clicks, t,
                        scrollDelta(direction))

-----------------------------------------------------------------------------
(* ScreenshotManager.  Its methods are operators on a record f of the file  *)
(* system and main-loop state they touch, which also carries threw and ret  *)
(* of the call in progress.                                                 *)

\* ScreenshotManager._path
Path == "~/.cache/easyspeak/screen.png"

\* constructor and _ensureCacheDir: the directory is made when it is missing
newScreenshotManager(f) ==
    [f EXCEPT !.cacheDir = TRUE]

\* takeScreenshotSync with the capture made inside the call
takeScreenshotInline(f, deleteOk) ==
    [f EXCEPT !.file = "present",
              !.del = IF f.file = "absent" THEN "missing" ELSE "removed",
              !.taken = f.taken + 1,
              !.attempts = f.attempts + 1,
              !.running = f.running + 1,
              !.ret = <<Path>>]

\* takeScreenshotSync adding no idle source while a capture is pending
takeScreenshotCoalesced(f, deleteOk) ==
    LET outcome == IF f.file = "absent" THEN "missing"
                   ELSE IF deleteOk THEN "removed" ELSE "failed"
    IN  [f EXCEPT !.file = IF outcome = "removed" THEN "absent" ELSE f.file,
                  !.del = outcome,
                  !.taken = f.taken + 1,
                  !.idle = IF f.idle + f.running > 0 THEN f.idle ELSE f.idle + 1,
                  !.ret = <<Path>>]

\* takeScreenshotSync without the try around the delete
takeScreenshotUncaught(f, deleteOk) ==
    LET outcome == IF f.file = "absent" THEN "missing"
                   ELSE IF deleteOk THEN "removed" ELSE "failed"
    IN  IF outcome = "removed"
        THEN [f EXCEPT !.file = "absent", !.del = outcome,
                       !.taken = f.taken + 1, !.idle = f.idle + 1,
                       !.ret = <<Path>>]
        ELSE [f EXCEPT !.del = outcome, !.taken = f.taken + 1,
                       !.threw = TRUE]

\* takeScreenshotSync.  Gio's delete throws when the file is missing and may
\* throw when it is there (deleteOk false); both are swallowed.
takeScreenshotSync(f, deleteOk) ==
    LET outcome == IF f.file = "absent" THEN "missing"
                   ELSE IF deleteOk THEN "removed" ELSE "failed"
    IN  [f EXCEPT !.file = IF outcome = "removed" THEN "absent" ELSE f.file,
                  !.del = outcome,
                  !.taken = f.taken + 1,
                  !.idle = f.idle + 1,
                  !.ret = <<Path>>]

\* the idle callback: _captureViaScreenshotClass up to its await.  file.replace
\* creates or truncates the file, or throws (replaceOk false), which is logged.
captureViaScreenshotClass(f, replaceOk) ==
    IF replaceOk
    THEN [f EXCEPT !.idle = f.idle - 1, !.attempts = f.attempts + 1,
                   !.file = "present", !.running = f.running + 1]
    ELSE [f EXCEPT !.idle = f.idle - 1, !.attempts = f.attempts + 1,
                   !.errors = f.errors + 1]

\* _captureViaScreenshotClass after its await: screenshot_area resolved and
\* the stream is closed, or it rejected (resolved false), which is logged
captureSettled(f, resolved) ==
    IF resolved
    THEN [f EXCEPT !.running = f.running - 1]
    ELSE [f EXCEPT !.running = f.running - 1, !.errors = f.errors + 1]

-----------------------------------------------------------------------------
(* WindowManager.  Its methods are operators on a record d of the desktop   *)
(* (workspaces, windows, focus, work areas), which also carries threw and   *)
(* ret of the call in progress and did, the calls it made on Meta.Window    *)
(* objects, in order.                                                       *)

\* A window actor.  meta: it has a Meta.Window; id: win.get_id(); title and
\* wmClass: Null or <<the string>>, a string being the sequence of its
\* characters; monitor: win.get_monitor(); frame: the frame rectangle;
\* deleted: win.delete was called and the window has been asked to close;
\* workspace: win.get_workspace(), Null or <<its index>>.
Actor(id, meta, type, title, wmClass, mon) ==
    [id |-> id, meta |-> meta, type |-> type, title |-> title,
     wmClass |-> wmClass, monitor |-> mon,
     frame |-> [x |-> 40 * id, y |-> 30 * id, width |-> 400, height |-> 300],
     maximized |-> FALSE, minimized |-> FALSE, fullscreen |-> FALSE,
     deleted |-> FALSE, workspace |-> <<0>>]

\* the position in d.windows of the window with this id
Position(d, id) == CHOOSE i \in 1..Len(d.windows) : d.windows[i].id = id

\* the call win.m(...) on the Meta.Window with this id
Did(m, id) == [m |-> m, id |-> id]

\* String.prototype.toLowerCase on the letters A to Z
UpperCase ==
    <<"A", "B", "C", "D", "E", "F", "G", "H", "I", "J", "K", "L", "M",
      "N", "O", "P", "Q", "R", "S", "T", "U", "V", "W", "X", "Y", "Z">>

LowerCase ==
    <<"a", "b", "c", "d", "e", "f", "g", "h", "i", "j", "k", "l", "m",
      "n", "o", "p", "q", "r", "s", "t", "u", "v", "w", "x", "y", "z">>

toLowerCase(str) ==
    [k \in 1..Len(str) |->
        IF \E n \in 1..Len(UpperCase) : UpperCase[n] = str[k]
        THEN LowerCase[CHOOSE n \in 1..Len(UpperCase) : UpperCase[n] = str[k]]
        ELSE str[k]]

\* String.prototype.includes
includes(str, search) ==
    \E from \in 1..(Len(str) - Len(search) + 1) :
        SubSeq(str, from, from + Len(search) - 1) = search

\* win.get_title()?.toLowerCase() || ''
lowerOrEmpty(str) == IF str = Null THEN <<>> ELSE toLowerCase(str[1])

\* win.activate
activate(d, i) ==
    [d EXCEPT !.focus = d.windows[i].id,
              !.did = Append(d.did, Did("activate", d.windows[i].id))]

\* the loop of focusWindow from actor i on, looking at every meta window
\* whatever its type
RECURSIVE focusLoopAnyType(_, _, _)
focusLoopAnyType(d, i, lowerTitle) ==
    IF i > Len(d.windows) THEN [d EXCEPT !.ret = <<FALSE>>]
    ELSE LET win == d.windows[i]
         IN  IF ~win.meta
             THEN focusLoopAnyType(d, i + 1, lowerTitle)
             ELSE IF \/ includes(lowerOrEmpty(win.title), lowerTitle)
                     \/ includes(lowerOrEmpty(win.wmClass), lowerTitle)
                  THEN [activate(d, i) EXCEPT !.ret = <<TRUE>>]
                  ELSE focusLoopAnyType(d, i + 1, lowerTitle)

\* the loop of focusWindow from actor i on
RECURSIVE focusLoop(_, _, _)
focusLoop(d, i, lowerTitle) ==
    IF i > Len(d.windows) THEN [d EXCEPT !.ret = <<FALSE>>]
    ELSE LET win == d.windows[i]
         IN  IF ~win.meta \/ win.type # "NORMAL"
             THEN focusLoop(d, i + 1, lowerTitle)
             ELSE IF \/ includes(lowerOrEmpty(win.title), lowerTitle)
                     \/ includes(lowerOrEmpty(win.wmClass), lowerTitle)
                  THEN [activate(d, i) EXCEPT !.ret = <<TRUE>>]
                  ELSE focusLoop(d, i + 1, lowerTitle)

\* the record getWindows makes of a normal window
WindowRecord(d, win) ==
    [id |-> win.id, title |-> win.title, wm_class |-> win.wmClass,
     workspace |-> IF win.workspace = Null THEN -1 ELSE win.workspace[1],
     focused |-> (win.id = d.focus)]

\* the map and filter of getWindows from actor i on, keeping every window
\* whatever its type
RECURSIVE windowRecordsAnyType(_, _)
windowRecordsAnyType(d, i) ==
    IF i > Len(d.windows) THEN <<>>
    ELSE LET win == d.windows[i]
         IN  (IF ~win.meta THEN <<>> ELSE <<WindowRecord(d, win)>>)
             \o windowRecordsAnyType(d, i + 1)

\* the map and filter of getWindows from actor i on
RECURSIVE windowRecords(_, _)
windowRecords(d, i) ==
    IF i > Len(d.windows) THEN <<>>
    ELSE LET win == d.windows[i]
         IN  (IF ~win.meta \/ win.type # "NORMAL" THEN <<>>
              ELSE <<WindowRecord(d, win)>>)
             \o windowRecords(d, i + 1)

\* getWindows; the JSON text is kept as the array it is the text of
getWindows(d) == [d EXCEPT !.ret = <<windowRecords(d, 1)>>]

\* focusWindow
focusWindow(d, titleSubstring) ==
    focusLoop(d, 1, toLowerCase(titleSubstring))

\* win.unmaximize(Meta.MaximizeFlags.BOTH)
unmaximize(d, i) ==
    [d EXCEPT !.windows[i].maximized = FALSE,
              !.did = Append(d.did, Did("unmaximize", d.windows[i].id))]

\* win.maximize(Meta.MaximizeFlags.BOTH)
maximize(d, i) ==
    [d EXCEPT !.windows[i].maximized = TRUE,
              !.did = Append(d.did, Did("maximize", d.windows[i].id))]

\* win.move_resize_frame(false, x, y, width, height)
move_resize_frame(d, i, x, y, width, height) ==
    [d EXCEPT !.windows[i].frame =
                  [x |-> x, y |-> y, width |-> width, height |-> height],
              !.did = Append(d.did, Did("move_resize_frame", d.windows[i].id))]

\* Math.floor(n / 2)
HalfFloor(n) == n \div 2

\* win.delete
delete(d, i) ==
    [d EXCEPT !.windows[i].deleted = TRUE,
              !.did = Append(d.did, Did("delete", d.windows[i].id))]

\* win.minimize
minimize(d, i) ==
    [d EXCEPT !.windows[i].minimized = TRUE,
              !.did = Append(d.did, Did("minimize", d.windows[i].id))]

\* win.make_fullscreen
make_fullscreen(d, i) ==
    [d EXCEPT !.windows[i].fullscreen = TRUE,
              !.did = Append(d.did, Did("make_fullscreen", d.windows[i].id))]

\* win.unmake_fullscreen
unmake_fullscreen(d, i) ==
    [d EXCEPT !.windows[i].fullscreen = FALSE,
              !.did = Append(d.did, Did("unmake_fullscreen", d.windows[i].id))]

\* closeWindow
closeWindow(d) ==
    IF d.focus = 0 THEN d ELSE delete(d, Position(d, d.focus))

\* minimizeWindow acting on the topmost window, focused or not
minimizeWindowTopmost(d) ==
    IF \A i \in 1..Len(d.windows) : ~d.windows[i].meta THEN d
    ELSE minimize(d, CHOOSE i \in 1..Len(d.windows) :
                        /\ d.windows[i].meta
                        /\ \A j \in (i + 1)..Len(d.windows) : ~d.windows[j].meta)

\* minimizeWindow
minimizeWindow(d) ==
    IF d.focus = 0 THEN d ELSE minimize(d, Position(d, d.focus))

\* maximizeWindow
maximizeWindow(d) ==
    IF d.focus = 0 THEN d ELSE maximize(d, Position(d, d.focus))

\* unmaximizeWindow
unmaximizeWindow(d) ==
    IF d.focus = 0 THEN d ELSE unmaximize(d, Position(d, d.focus))

\* fullscreenWindow
fullscreenWindow(d) ==
    IF d.focus = 0 THEN d ELSE make_fullscreen(d, Position(d, d.focus))

\* unfullscreenWindow
unfullscreenWindow(d) ==
    IF d.focus = 0 THEN d ELSE unmake_fullscreen(d, Position(d, d.focus))

\* tileLeft
tileLeft(d) ==
    IF d.focus = 0 THEN d
    ELSE LET i == Position(d, d.focus)
             workArea == d.workAreas[d.windows[i].monitor + 1]
         IN  move_resize_frame(unmaximize(d, i), i,
                               workArea.x, workArea.y,
                               HalfFloor(workArea.width), workArea.height)

\* tileRight putting the window's right edge on the work area's right edge
tileRightFlush(d) ==
    IF d.focus = 0 THEN d
    ELSE LET i == Position(d, d.focus)
             workArea == d.workAreas[d.windows[i].monitor + 1]
         IN  move_resize_frame(unmaximize(d, i), i,
                               workArea.x + workArea.width
                                   - HalfFloor(workArea.width),
                               workArea.y,
                               HalfFloor(workArea.width), workArea.height)

\* tileRight
tileRight(d) ==
    IF d.focus = 0 THEN d
    ELSE LET i == Position(d, d.focus)
             workArea == d.workAreas[d.windows[i].monitor + 1]
         IN  move_resize_frame(unmaximize(d, i), i,
                               workArea.x + HalfFloor(workArea.width),
                               workArea.y,
                               HalfFloor(workArea.width), workArea.height)

\* workspace_manager.get_workspace_by_index: the workspace, or null when
\* there is none at that index
get_workspace_by_index(d, index) ==
    IF 0 <= index /\ index < d.nWorkspaces THEN <<index>> ELSE Null

\* switchWorkspace activating whatever get_workspace_by_index returned
switchWorkspaceUnchecked(d, index) ==
    LET ws == get_workspace_by_index(d, index)
    IN  IF ws # Null THEN [d EXCEPT !.activeWs = ws[1]]
        ELSE [d EXCEPT !.threw = TRUE]

\* switchWorkspace
switchWorkspace(d, index) ==
    LET ws == get_workspace_by_index(d, index)
    IN  IF ws # Null THEN [d EXCEPT !.activeWs = ws[1]] ELSE d

\* nextWorkspace going round to the first workspace
nextWorkspaceWraps(d) ==
    switchWorkspace(d, (d.activeWs + 1) % d.nWorkspaces)

\* nextWorkspace
nextWorkspace(d) ==
    LET current == d.activeWs
        next == Min(current + 1, d.nWorkspaces - 1)
    IN  switchWorkspace(d, next)

\* prevWorkspace
prevWorkspace(d) ==
    LET current == d.activeWs
        prev == Max(current - 1, 0)
    IN  switchWorkspace(d, prev)

\* getWorkspaceCount
getWorkspaceCount(d) == [d EXCEPT !.ret = <<d.nWorkspaces>>]

\* getCurrentWorkspace
getCurrentWorkspace(d) == [d EXCEPT !.ret = <<d.activeWs>>]

-----------------------------------------------------------------------------
(* The state at the start of a call, and the effect of a finished call *)

This ==
    [container |-> container, bounds |-> bounds,
     screenW |-> screenW, screenH |-> screenH,
     pointer |-> pointer, dragging |-> dragging,
     live |-> live, ndev |-> ndev,
     out |-> <<>>, threw |-> FALSE, attempted |-> FALSE, ret |-> <<>>,
     drawn |-> 0, did |-> <<>>]

Commit(s) ==
    /\ container' = s.container
    /\ bounds' = s.bounds
    /\ screenW' = s.screenW
    /\ screenH' = s.screenH
    /\ pointer' = s.pointer
    /\ dragging' = s.dragging
    /\ live' = s.live
    /\ ndev' = s.ndev

\* shown and drag: whether the overlay existed and _dragging was set when the
\* call started; seq alternates between 0 and 1 from one call to the next
CallRecord(op, args, s) ==
    [op |-> op, args |-> args, t0 |-> now,
     shown |-> container # Null, drag |-> dragging, out |-> s.out,
     threw |-> s.threw, attempted |-> s.attempted, ret |-> s.ret,
     drawn |-> s.drawn, logged |-> errors, did |-> s.did,
     seq |-> 1 - last.seq]

\* what a pointer-producing call did: "threw" (no device), "noop" (returned
\* before reaching the device) or "done"; drag: _dragging at its start
Effect(s) ==
    IF s.threw THEN "threw" ELSE IF s.out = <<>> THEN "noop" ELSE "done"

Remember(op, s) ==
    LET d == [op |-> op, effect |-> Effect(s), drag |-> dragging]
    IN  IF Len(ptrCalls) < 2 THEN Append(ptrCalls, d)
        ELSE <<ptrCalls[2], d>>

\* whether the primary button is down after the events out, h telling
\* whether it was down before them
HeldAfter(h, out) ==
    LET primary == {i \in 1..Len(out) :
                       out[i].kind = "button" /\ out[i].button = "PRIMARY"}
    IN  IF primary = {} THEN h
        ELSE out[CHOOSE i \in primary : \A j \in primary : j <= i].state = "PRESSED"

\* a call of the overlay group of the interface: Show, Hide, Update, GetScreenSize
OverlayCall(op, args, s) ==
    /\ enabled
    /\ Commit(s)
    /\ last' = CallRecord(op, args, s)
    /\ UNCHANGED <<enabled, monitor, now, ptrCalls, held>>
    /\ UNCHANGED <<shotVars, wmVars>>

\* a call of the mouse group of the interface
PointerCall(op, args, s) ==
    /\ enabled
    /\ Commit(s)
    /\ last' = CallRecord(op, args, s)
    /\ ptrCalls' = Remember(op, s)
    /\ held' = HeldAfter(held, s.out)
    /\ UNCHANGED <<enabled, monitor, now>>
    /\ UNCHANGED <<shotVars, wmVars>>

XY(p) == Args(p[1], p[2], 0, 0, "", 0)

\* the outcomes seat.create_virtual_device can have in a call; it is
\* invoked only while _pointer is unset
CreateOutcomes == IF pointer = NoDevice THEN BOOLEAN ELSE {TRUE}

\* the file system and main loop as a call of ScreenshotManager finds them
Files ==
    [cacheDir |-> cacheDir, file |-> file, idle |-> idle,
     running |-> running, taken |-> taken, attempts |-> attempts,
     errors |-> errors, del |-> del, threw |-> FALSE, ret |-> <<>>]

CommitFiles(f) ==
    /\ cacheDir' = f.cacheDir
    /\ file' = f.file
    /\ idle' = f.idle
    /\ running' = f.running
    /\ taken' = f.taken
    /\ attempts' = f.attempts
    /\ errors' = f.errors
    /\ del' = f.del

\* the desktop as a call of WindowManager finds it
Desk ==
    [nWorkspaces |-> nWorkspaces, activeWs |-> activeWs, windows |-> windows,
     focus |-> focus, workAreas |-> workAreas, threw |-> FALSE, ret |-> <<>>,
     did |-> <<>>]

CommitDesk(d) ==
    /\ nWorkspaces' = d.nWorkspaces
    /\ activeWs' = d.activeWs
    /\ windows' = d.windows
    /\ focus' = d.focus
    /\ workAreas' = d.workAreas

\* a call of the window or workspace group of the interface
WindowCall(op, args, d) ==
    /\ enabled
    /\ CommitDesk(d)
    /\ last' = CallRecord(op, args, [This EXCEPT !.threw = d.threw,
                                                 !.ret = d.ret,
                                                 !.did = d.did])
    /\ UNCHANGED <<enabled, container, bounds, screenW, screenH, pointer,
                   dragging, live, ndev, monitor, now, ptrCalls, held>>
    /\ UNCHANGED shotVars

\* a call of the screenshot group of the interface
ScreenshotCall(op, f) ==
    /\ enabled
    /\ CommitFiles(f)
    /\ last' = CallRecord(op, NoArgs, [This EXCEPT !.threw = f.threw,
                                                   !.ret = f.ret])
    /\ UNCHANGED <<enabled, container, bounds, screenW, screenH, pointer,
                   dragging, live, ndev, monitor, now, ptrCalls, held>>
    /\ UNCHANGED <<capAfter, wmVars>>

-----------------------------------------------------------------------------
(* Actions: the methods exported on D-Bus by enable(), the extension's     *)
(* enable and disable, and the environment (clock, monitor layout).        *)

InitGrid ==
    /\ enabled = FALSE
    /\ container = NewGrid.container
    /\ bounds = NewGrid.bounds
    /\ screenW = NewGrid.screenW
    /\ screenH = NewGrid.screenH
    /\ pointer = NewGrid.pointer
    /\ dragging = NewGrid.dragging
    /\ live = 0
    /\ ndev = 0
    /\ monitor = FirstMonitor
    /\ now = 0
    /\ last = NoCall
    /\ ptrCalls = <<>>
    /\ held = FALSE

\* no cache directory yet, no screenshot file, nothing scheduled
InitShot ==
    /\ cacheDir = FALSE
    /\ file = "absent"
    /\ idle = 0
    /\ running = 0
    /\ taken = 0
    /\ attempts = 0
    /\ errors = 0
    /\ del = "none"
    /\ capAfter = ""

\* a desktop with one workspace and no window
InitDesktop ==
    /\ nWorkspaces = 1
    /\ activeWs = 0
    /\ windows = <<>>
    /\ focus = 0
    /\ workAreas = <<[x |-> FirstMonitor.x, y |-> FirstMonitor.y,
                      width |-> FirstMonitor.width,
                      height |-> FirstMonitor.height]>>

Init == InitGrid /\ InitShot /\ InitDesktop

SetGrid(g) ==
    /\ container' = g.container
    /\ bounds' = g.bounds
    /\ screenW' = g.screenW
    /\ screenH' = g.screenH
    /\ pointer' = g.pointer
    /\ dragging' = g.dragging

\* enable: a new GridOverlay; GNOME Shell calls enable and disable in turn
Enable ==
    /\ ~enabled
    /\ ndev < MaxDevices
    /\ enabled' = TRUE
    /\ SetGrid(NewGrid)
    /\ ptrCalls' = <<>>
    /\ held' = FALSE
    /\ cacheDir' = newScreenshotManager(Files).cacheDir
    /\ UNCHANGED <<live, ndev, monitor, now, last>>
    /\ UNCHANGED <<file, idle, running, taken, attempts, errors, del, capAfter>>
    /\ UNCHANGED wmVars

\* disable: hide the grid and drop the GridOverlay
Disable ==
    /\ enabled
    /\ enabled' = FALSE
    /\ live' = hide(This).live
    /\ SetGrid(NewGrid)
    /\ ptrCalls' = <<>>
    /\ held' = FALSE
    /\ UNCHANGED <<ndev, monitor, now, last>>
    /\ UNCHANGED <<shotVars, wmVars>>

Show(a) ==
    OverlayCall("Show", Args(0, 0, a[1], a[2], "", 0),
                show(This, a[1], a[2], monitor))

Hide == OverlayCall("Hide", NoArgs, hide(This))

Update(r) ==
    OverlayCall("Update", Args(r[1], r[2], r[3], r[4], "", 0),
                update(This, r[1], r[2], r[3], r[4]))

GetScreenSize == OverlayCall("GetScreenSize", NoArgs, getScreenSize(This, monitor))

Click(p, ok) ==
    PointerCall("Click", XY(p), click(This, p[1], p[2], now, ok))

DoubleClick(p, ok) ==
    PointerCall("DoubleClick", XY(p), doubleClick(This, p[1], p[2], now, ok))

RightClick(p, ok) ==
    PointerCall("RightClick", XY(p), rightClick(This, p[1], p[2], now, ok))

MiddleClick(p, ok) ==
    PointerCall("MiddleClick", XY(p), middleClick(This, p[1], p[2], now, ok))

MoveTo(p, ok) ==
    PointerCall("MoveTo", XY(p), moveTo(This, p[1], p[2], now, ok))

StartDrag(p, ok) ==
    PointerCall("StartDrag", XY(p), startDrag(This, p[1], p[2], now, ok))

EndDrag(p, ok) ==
    PointerCall("EndDrag", XY(p), endDrag(This, p[1], p[2], now, ok))

Scroll(p, d, n, ok) ==
    PointerCall("Scroll", Args(p[1], p[2], 0, 0, d, n),
                scroll(This, p[1], p[2], d, n, now, ok))

\* the monotonic clock advances between calls
Tick ==
    /\ now < MaxTicks * ClockStep
    /\ now' = now + ClockStep
    /\ UNCHANGED <<enabled, container, bounds, screenW, screenH, pointer,
                   dragging, live, ndev, monitor, last, ptrCalls, held>>
    /\ UNCHANGED <<shotVars, wmVars>>

\* the output configuration changes: another primary monitor
MonitorsChanged ==
    /\ monitor' \in Monitors \ {monitor}
    /\ UNCHANGED <<enabled, container, bounds, screenW, screenH, pointer,
                   dragging, live, ndev, now, last, ptrCalls, held>>
    /\ UNCHANGED <<shotVars, wmVars>>

SwitchWorkspace(i) == WindowCall("SwitchWorkspace", Index(i), switchWorkspace(Desk, i))

NextWorkspace == WindowCall("NextWorkspace", NoArgs, nextWorkspace(Desk))

PrevWorkspace == WindowCall("PrevWorkspace", NoArgs, prevWorkspace(Desk))

GetWorkspaceCount == WindowCall("GetWorkspaceCount", NoArgs, getWorkspaceCount(Desk))

GetCurrentWorkspace ==
    WindowCall("GetCurrentWorkspace", NoArgs, getCurrentWorkspace(Desk))

\* the shell appends a workspace
WorkspaceAdded ==
    /\ nWorkspaces < MaxWorkspaces
    /\ nWorkspaces' = nWorkspaces + 1
    /\ UNCHANGED <<gridVars, shotVars, activeWs, windows, focus, workAreas>>

\* the shell removes workspace i; there is always one left, and the active
\* index follows the workspaces that move down
WorkspaceRemoved(i) ==
    /\ nWorkspaces > 1
    /\ i < nWorkspaces
    /\ nWorkspaces' = nWorkspaces - 1
    /\ activeWs' = IF activeWs > i \/ activeWs = nWorkspaces - 1
                   THEN activeWs - 1 ELSE activeWs
    /\ UNCHANGED <<gridVars, shotVars, windows, focus, workAreas>>

\* a desktop with any number of workspaces, any of them active
InitWorkspaces ==
    /\ InitGrid
    /\ InitShot
    /\ nWorkspaces \in 1..MaxWorkspaces
    /\ activeWs \in 0..(nWorkspaces - 1)
    /\ windows = <<>>
    /\ focus = 0
    /\ workAreas = <<[x |-> FirstMonitor.x, y |-> FirstMonitor.y,
                      width |-> FirstMonitor.width,
                      height |-> FirstMonitor.height]>>

\* The workspace methods on every index from below the first workspace to
\* above the last, while workspaces come and go.
NextWorkspaces ==
    \/ Enable
    \/ Disable
    \/ \E i \in -1..MaxWorkspaces : SwitchWorkspace(i)
    \/ NextWorkspace
    \/ PrevWorkspace
    \/ GetWorkspaceCount
    \/ GetCurrentWorkspace
    \/ WorkspaceAdded
    \/ \E i \in 0..(MaxWorkspaces - 1) : WorkspaceRemoved(i)

SpecWorkspaces == InitWorkspaces /\ [][NextWorkspaces]_vars

\* The actors of the desktop, bottom first: a panel titled "Fire" on the
\* second monitor, an actor that has no window, "Firefox" of class "Nav",
\* and a window without title, of class "FIRE", on no workspace.
Desktop ==
    <<Actor(1, TRUE, "DOCK", <<<<"F", "i", "r", "e">>>>, <<<<"p", "a", "n", "e", "l">>>>, 1),
      Actor(2, FALSE, "", Null, Null, 0),
      Actor(3, TRUE, "NORMAL", <<<<"F", "i", "r", "e", "f", "o", "x">>>>, <<<<"N", "a", "v">>>>, 0),
      [Actor(4, TRUE, "NORMAL", Null, <<<<"F", "I", "R", "E">>>>, 0)
           EXCEPT !.workspace = Null]>>

\* what FocusWindow is asked for: "fire", "FIRE", "nav", "panel", "zzz",
\* "firefoxes" and the empty string
Queries ==
    {<<"f", "i", "r", "e">>,
     <<"F", "I", "R", "E">>,
     <<"n", "a", "v">>,
     <<"p", "a", "n", "e", "l">>,
     <<"z", "z", "z">>,
     <<"f", "i", "r", "e", "f", "o", "x", "e", "s">>,
     <<>>}

\* work areas of the two monitors: an odd and an even width, the first
\* below a top bar, the second right of the first
WorkAreas ==
    {<<[x |-> 0, y |-> 32, width |-> 1919, height |-> 1048],
       [x |-> 1920, y |-> 0, width |-> 1280, height |-> 720]>>,
     <<[x |-> 0, y |-> 0, width |-> 1, height |-> 1],
       [x |-> -1280, y |-> 32, width |-> 1280, height |-> 688]>>}

FocusWindow(t) == WindowCall("FocusWindow", Title(t), focusWindow(Desk, t))

GetWindows == WindowCall("GetWindows", NoArgs, getWindows(Desk))

MaximizeWindow == WindowCall("MaximizeWindow", NoArgs, maximizeWindow(Desk))

TileLeft == WindowCall("TileLeft", NoArgs, tileLeft(Desk))

TileRight == WindowCall("TileRight", NoArgs, tileRight(Desk))

\* the stacking order changes: the actors at i and i+1 change places
Restacked(i) ==
    /\ i < Len(windows)
    /\ windows' = [windows EXCEPT ![i] = windows[i + 1], ![i + 1] = windows[i]]
    /\ UNCHANGED <<gridVars, shotVars, nWorkspaces, activeWs, focus, workAreas>>

\* the user gives the focus to another window, or to none (id 0)
FocusChanged(id) ==
    /\ id # focus
    /\ id = 0 \/ \E i \in 1..Len(windows) : windows[i].id = id /\ windows[i].meta
    /\ focus' = id
    /\ UNCHANGED <<gridVars, shotVars, nWorkspaces, activeWs, windows, workAreas>>

\* the desktop with no window focused and one layout of the monitors
InitWindows ==
    /\ InitGrid
    /\ InitShot
    /\ nWorkspaces = 1
    /\ activeWs = 0
    /\ windows = Desktop
    /\ focus = 0
    /\ workAreas \in WorkAreas

\* FocusWindow on every query and GetWindows, the stacking order and the
\* focus changing.
NextFocus ==
    \/ Enable
    \/ Disable
    \/ \E t \in Queries : FocusWindow(t)
    \/ GetWindows
    \/ \E i \in 1..(Len(Desktop) - 1) : Restacked(i)
    \/ \E id \in 0..Len(Desktop) : FocusChanged(id)

SpecFocus == InitWindows /\ [][NextFocus]_vars

\* Tiling and maximizing whichever window has the focus.
NextTile ==
    \/ Enable
    \/ Disable
    \/ MaximizeWindow
    \/ TileLeft
    \/ TileRight
    \/ \E id \in 0..Len(Desktop) : FocusChanged(id)

SpecTile == InitWindows /\ [][NextTile]_vars

CloseWindow == WindowCall("CloseWindow", NoArgs, closeWindow(Desk))

MinimizeWindow == WindowCall("MinimizeWindow", NoArgs, minimizeWindow(Desk))

UnmaximizeWindow == WindowCall("UnmaximizeWindow", NoArgs, unmaximizeWindow(Desk))

FullscreenWindow == WindowCall("FullscreenWindow", NoArgs, fullscreenWindow(Desk))

UnfullscreenWindow ==
    WindowCall("UnfullscreenWindow", NoArgs, unfullscreenWindow(Desk))

\* remove the i-th element of a sequence
Without(seq, i) == SubSeq(seq, 1, i - 1) \o SubSeq(seq, i + 1, Len(seq))

\* a window that was asked to close goes away; the focus is on no window
\* if it had it
WindowClosed(i) ==
    /\ i <= Len(windows)
    /\ windows[i].deleted
    /\ windows' = Without(windows, i)
    /\ focus' = IF focus = windows[i].id THEN 0 ELSE focus
    /\ UNCHANGED <<gridVars, shotVars, nWorkspaces, activeWs, workAreas>>

\* the desktop on the first layout of the monitors, "Firefox" focused
InitActions ==
    /\ InitGrid
    /\ InitShot
    /\ nWorkspaces = 1
    /\ activeWs = 0
    /\ windows = Desktop
    /\ focus = 3
    /\ workAreas = CHOOSE wa \in WorkAreas : wa[1].x = 0 /\ wa[1].width > 1

\* The actions on the focused window, the focus moving between the two
\* normal windows and away from both, windows closing when asked to.
NextActions ==
    \/ Enable
    \/ CloseWindow
    \/ MinimizeWindow
    \/ MaximizeWindow
    \/ UnmaximizeWindow
    \/ FullscreenWindow
    \/ UnfullscreenWindow
    \/ TileLeft
    \/ TileRight
    \/ \E id \in {0, 3, 4} : FocusChanged(id)
    \/ \E i \in 1..Len(Desktop) : WindowClosed(i)

SpecActions == InitActions /\ [][NextActions]_vars

TakeScreenshot(deleteOk) ==
    /\ taken < MaxShots
    /\ ScreenshotCall("TakeScreenshot", takeScreenshotSync(Files, deleteOk))

\* the main loop dispatches one idle source; a disabled extension's sources
\* are still there
RunIdle(replaceOk) ==
    /\ idle > 0
    /\ CommitFiles(captureViaScreenshotClass(Files, replaceOk))
    /\ capAfter' = last.op
    /\ UNCHANGED <<gridVars, wmVars>>

\* screenshot_area of one waiting capture resolves or rejects
ScreenshotSettles(resolved) ==
    /\ running > 0
    /\ CommitFiles(captureSettled(Files, resolved))
    /\ UNCHANGED <<gridVars, capAfter, wmVars>>

\* Screenshots among overlay calls and a drag, the extension being disabled
\* and enabled, every delete and capture outcome.
NextShot ==
    \/ Enable
    \/ Disable
    \/ Show(OneShow)
    \/ Hide
    \/ \E ok \in CreateOutcomes : StartDrag(OnePoint, ok)
    \/ \E deleteOk \in BOOLEAN : TakeScreenshot(deleteOk)
    \/ \E replaceOk \in BOOLEAN : RunIdle(replaceOk)
    \/ \E resolved \in BOOLEAN : ScreenshotSettles(resolved)

SpecShot == Init /\ [][NextShot]_vars

\* Screenshots among overlay calls, the extension being disabled and enabled.
NextShotLoop ==
    \/ Enable
    \/ Disable
    \/ Show(OneShow)
    \/ Hide
    \/ \E deleteOk \in BOOLEAN : TakeScreenshot(deleteOk)
    \/ \E replaceOk \in BOOLEAN : RunIdle(replaceOk)
    \/ \E resolved \in BOOLEAN : ScreenshotSettles(resolved)

\* The main loop dispatches a ready idle source and Shell.Screenshot settles
\* its promise.
SpecShotFair ==
    /\ Init /\ [][NextShotLoop]_vars
    /\ WF_vars(\E replaceOk \in BOOLEAN : RunIdle(replaceOk))
    /\ WF_vars(\E resolved \in BOOLEAN : ScreenshotSettles(resolved))

\* The gestures: every method of the mouse group on two points, the overlay
\* shown, updated and hidden in between, the clock, enable and disable.
Next ==
    \/ Enable
    \/ Disable
    \/ Show(OneShow)
    \/ Hide
    \/ Update(OneRect)
    \/ \E p \in Points, ok \in CreateOutcomes : Click(p, ok)
    \/ \E p \in Points, ok \in CreateOutcomes : DoubleClick(p, ok)
    \/ \E p \in Points, ok \in CreateOutcomes : RightClick(p, ok)
    \/ \E p \in Points, ok \in CreateOutcomes : MiddleClick(p, ok)
    \/ \E p \in Points, ok \in CreateOutcomes : MoveTo(p, ok)
    \/ \E p \in Points, ok \in CreateOutcomes : StartDrag(p, ok)
    \/ \E p \in Points, ok \in CreateOutcomes : EndDrag(p, ok)
    \/ \E n \in FewClicks, ok \in CreateOutcomes : Scroll(OnePoint, "down", n, ok)
    \/ Tick

Spec == Init /\ [][Next]_vars

\* Scroll on every direction and count, with the overlay and a drag around it.
NextScroll ==
    \/ Enable
    \/ Show(OneShow)
    \/ \E ok \in CreateOutcomes : StartDrag(OnePoint, ok)
    \/ \E p \in Points, d \in Dirs, n \in Clicks, ok \in CreateOutcomes :
           Scroll(p, d, n, ok)
    \/ Tick

SpecScroll == Init /\ [][NextScroll]_vars

\* The overlay: Show and Update on every argument, the monitor layout
\* changing, and a gesture that hides the overlay.
NextOverlay ==
    \/ Enable
    \/ Disable
    \/ \E a \in ShowArgs : Show(a)
    \/ Hide
    \/ \E r \in Rects : Update(r)
    \/ GetScreenSize
    \/ \E ok \in CreateOutcomes : Click(OnePoint, ok)
    \/ \E ok \in CreateOutcomes : StartDrag(OnePoint, ok)
    \/ MonitorsChanged

SpecOverlay == Init /\ [][NextOverlay]_vars

\* rectangles to render: each case of the font size and of the crosshair
\* size, a zero and a negative extent
RenderRects ==
    {<<0, 0, 640, 360>>, <<100, 50, 100, 200>>, <<7, 9, 1000, 700>>,
     <<-5, 700, 0, 3>>, <<30, 40, -7, 400>>}

\* Renders: Show and Update on every rectangle, repeated, with the overlay
\* hidden and the monitor changing in between.
NextRender ==
    \/ Enable
    \/ Disable
    \/ \E a \in ShowArgs : Show(a)
    \/ Hide
    \/ \E r \in RenderRects : Update(r)
    \/ MonitorsChanged

SpecRender == Init /\ [][NextRender]_vars

\* Every group of the interface around a drag: overlay calls, each gesture
\* on one point, screenshot requests, and a window, a focus and a workspace
\* call on the desktop with "Firefox" focused.
NextDrag ==
    \/ Enable
    \/ Show(OneShow)
    \/ Hide
    \/ Update(OneRect)
    \/ GetScreenSize
    \/ \E ok \in CreateOutcomes : Click(OnePoint, ok)
    \/ \E ok \in CreateOutcomes : DoubleClick(OnePoint, ok)
    \/ \E ok \in CreateOutcomes : RightClick(OnePoint, ok)
    \/ \E ok \in CreateOutcomes : MiddleClick(OnePoint, ok)
    \/ \E ok \in CreateOutcomes : MoveTo(OnePoint, ok)
    \/ \E ok \in CreateOutcomes : StartDrag(OnePoint, ok)
    \/ \E ok \in CreateOutcomes : EndDrag(OnePoint, ok)
    \/ \E ok \in CreateOutcomes : Scroll(OnePoint, "down", 1, ok)
    \/ TakeScreenshot(TRUE)
    \/ MinimizeWindow
    \/ FocusWindow(<<"f", "i", "r", "e">>)
    \/ NextWorkspace

SpecDrag == InitActions /\ [][NextDrag]_vars

-----------------------------------------------------------------------------
(* Vocabulary of the properties *)

\* this step is a call of method op
IsCall(op) == last'.seq # last.seq /\ last'.op = op

\* the events of a call as the method passed them to the device
Sent(c) ==
    [i \in 1..Len(c.out) |->
        [kind |-> c.out[i].kind, time |-> c.out[i].time,
         x |-> c.out[i].x, y |-> c.out[i].y,
         button |-> c.out[i].button, state |-> c.out[i].state,
         dx |-> c.out[i].dx, dy |-> c.out[i].dy]]

GridState == <<container, bounds, screenW, screenH, pointer, dragging, live, ndev>>

\* the most recent pointer-producing call on this GridOverlay, if any
LastPtr == IF ptrCalls = <<>> THEN [op |-> "none", effect |-> "noop", drag |-> FALSE]
           ELSE ptrCalls[Len(ptrCalls)]

HidingOps == {"Click", "DoubleClick", "RightClick", "MiddleClick", "Scroll", "EndDrag"}

ClickOps == {"Click", "RightClick", "MiddleClick"}

\* the button each click method is said to press and release
ClaimedButton(op) ==
    CASE op = "Click"       -> "PRIMARY"
      [] op = "RightClick"  -> "SECONDARY"
      [] op = "MiddleClick" -> "MIDDLE"

\* the delta each direction is said to scroll by
ClaimedDelta(direction) ==
    IF direction = "up" THEN <<0, -1>>
    ELSE IF direction = "down" THEN <<0, 1>>
    ELSE IF direction = "left" THEN <<-1, 0>>
    ELSE IF direction = "right" THEN <<1, 0>>
    ELSE <<0, 0>>

-----------------------------------------------------------------------------
(* C1 *)

\* C1: a StartDrag(x1,y1) that starts with drag inactive emits a move to
\* (x1,y1) and then one primary press, no release, and leaves the overlay as
\* it was; the EndDrag(x2,y2) that is the next pointer-producing call after it
\* emits a move to (x2,y2) and then one primary release, and no overlay exists
\* when it returns.
C1_DragPair ==
    [][ /\ (IsCall("StartDrag") /\ ~dragging /\ ~last'.threw) =>
              /\ Sent(last') = <<Motion(now, last'.args.x, last'.args.y),
                                 Button(now + 5000, "PRIMARY", "PRESSED")>>
              /\ container' = container
              /\ dragging'
        /\ (IsCall("EndDrag") /\ LastPtr.op = "StartDrag"
                              /\ LastPtr.effect = "done" /\ ~LastPtr.drag) =>
              /\ Sent(last') = <<Motion(now, last'.args.x, last'.args.y),
                                 Button(now + 5000, "PRIMARY", "RELEASED")>>
              /\ container' = Null
              /\ ~dragging'
      ]_vars

\* StartDrag from drag inactive, then EndDrag at another time with the overlay
\* still shown when EndDrag started
C1_Witness ==
    /\ ptrCalls = <<[op |-> "StartDrag", effect |-> "done", drag |-> FALSE],
                    [op |-> "EndDrag", effect |-> "done", drag |-> TRUE]>>
    /\ last.op = "EndDrag"
    /\ last.shown
    /\ last.t0 > 0
    /\ container = Null

-----------------------------------------------------------------------------
(* C2 *)

\* C2: an EndDrag called while _dragging is false emits no event, does not
\* look for the pointer device, and changes nothing of the grid: the overlay
\* stays, no device is created, _dragging stays false.
C2_EndDragNoop ==
    [][ (IsCall("EndDrag") /\ ~dragging) =>
            /\ last'.out = <<>>
            /\ ~last'.attempted
            /\ ~last'.threw
            /\ UNCHANGED GridState
      ]_vars

\* an EndDrag that did nothing, called after an EndDrag that ended a drag and
\* with an overlay shown since
C2_Witness ==
    /\ Len(ptrCalls) = 2
    /\ ptrCalls[1] = [op |-> "EndDrag", effect |-> "done", drag |-> TRUE]
    /\ ptrCalls[2] = [op |-> "EndDrag", effect |-> "noop", drag |-> FALSE]
    /\ last.op = "EndDrag"
    /\ container # Null

-----------------------------------------------------------------------------
(* C3 *)

\* C3: an event delivered while the overlay exists comes from MoveTo or
\* StartDrag only; after Click, DoubleClick, RightClick, MiddleClick, Scroll
\* and an EndDrag called while dragging, no overlay exists.
C3_HiddenBeforeEvents ==
    /\ [](\A i \in 1..Len(last.out) :
              last.out[i].overlay => last.op \in {"MoveTo", "StartDrag"})
    /\ [][ \A op \in HidingOps :
              (IsCall(op) /\ (op = "EndDrag" => dragging)) => container' = Null
         ]_vars

\* a DoubleClick that started with the overlay shown and delivered its events
C3_Witness ==
    /\ last.op = "DoubleClick"
    /\ last.shown
    /\ Len(last.out) = 5
    /\ container = Null

-----------------------------------------------------------------------------
(* C6 *)

\* C6: Click, RightClick and MiddleClick at (x,y), started at t0, deliver
\* exactly: move to (x,y) at t0, press at t0+5ms, release at t0+10ms, of the
\* primary, secondary and middle button respectively; _dragging is unchanged.
C6_ClickSequence ==
    /\ []((last.op \in ClickOps /\ ~last.threw) =>
            Sent(last) = <<Motion(last.t0, last.args.x, last.args.y),
                           Button(last.t0 + 5000, ClaimedButton(last.op), "PRESSED"),
                           Button(last.t0 + 10000, ClaimedButton(last.op), "RELEASED")>>)
    /\ [][ \A op \in ClickOps : IsCall(op) => dragging' = dragging ]_vars

\* a MiddleClick during a drag, not at time 0
C6_Witness ==
    /\ last.op = "MiddleClick"
    /\ last.drag
    /\ last.t0 > 0
    /\ Len(last.out) = 3
    /\ dragging

-----------------------------------------------------------------------------
(* C7 *)

\* C7: DoubleClick at (x,y), started at t0, delivers exactly: move to (x,y)
\* at t0, primary press at t0+5ms, release at t0+10ms, press at t0+60ms,
\* release at t0+65ms; so one move only, presses and releases alternate and
\* the timestamps increase strictly.
C7_DoubleClickSequence ==
    (last.op = "DoubleClick" /\ ~last.threw) =>
        /\ Sent(last) = <<Motion(last.t0, last.args.x, last.args.y),
                          Button(last.t0 + 5000, "PRIMARY", "PRESSED"),
                          Button(last.t0 + 10000, "PRIMARY", "RELEASED"),
                          Button(last.t0 + 60000, "PRIMARY", "PRESSED"),
                          Button(last.t0 + 65000, "PRIMARY", "RELEASED")>>
        /\ Cardinality({i \in 1..Len(last.out) : last.out[i].kind = "motion"}) = 1
        /\ \A i \in 2..Len(last.out) :
              /\ last.out[i].kind = "button"
              /\ last.out[i].state = (IF i % 2 = 0 THEN "PRESSED" ELSE "RELEASED")
              /\ last.out[i].time > last.out[i - 1].time

\* a DoubleClick at (200,200), not at time 0
C7_Witness ==
    /\ last.op = "DoubleClick"
    /\ last.args.x = 200
    /\ last.t0 > 0
    /\ Len(last.out) = 5

-----------------------------------------------------------------------------
(* C9 *)

\* C9: MoveTo(x,y) delivers exactly one motion event, to (x,y), and leaves the
\* overlay, the bounds and _dragging as they were, also during a drag.
C9_MoveToOnly ==
    [][ IsCall("MoveTo") =>
            /\ ~last'.threw =>
                   Sent(last') = <<Motion(now, last'.args.x, last'.args.y)>>
            /\ container' = container
            /\ bounds' = bounds
            /\ dragging' = dragging
            /\ live' = live
      ]_vars

\* a MoveTo during a drag with the overlay shown
C9_Witness ==
    /\ last.op = "MoveTo"
    /\ last.drag
    /\ last.shown
    /\ Len(last.out) = 1
    /\ container # Null
    /\ dragging

-----------------------------------------------------------------------------
(* C8 *)

\* C8: Scroll(x,y,dir,n) with n >= 1, started at t0, delivers a move to (x,y)
\* at t0 and then exactly n scroll events, the i-th at t0+(i-1)*50ms, all
\* with the delta of dir: (0,-1) up, (0,1) down, (-1,0) left, (1,0) right and
\* (0,0) for any other string, which does not make the call fail.
C8_ScrollEvents ==
    (last.op = "Scroll" /\ last.args.clicks >= 1) =>
        /\ last.threw => (last.attempted /\ pointer = NoDevice)
        /\ ~last.threw =>
              LET n == last.args.clicks
                  d == ClaimedDelta(last.args.direction)
              IN  /\ Len(last.out) = n + 1
                  /\ Sent(last)[1] = Motion(last.t0, last.args.x, last.args.y)
                  /\ \A i \in 1..n :
                        Sent(last)[i + 1] =
                            ScrollEvent(last.t0 + (i - 1) * 50000, d[1], d[2])

\* Scroll(.., "bogus", 3), not at time 0
C8_Witness ==
    /\ last.op = "Scroll"
    /\ last.args.direction = "bogus"
    /\ last.args.clicks = 3
    /\ last.t0 > 0
    /\ Len(last.out) = 4
    /\ last.out[4].time = last.t0 + 100000

-----------------------------------------------------------------------------
(* C10 *)

\* C10: whatever w,h are, after Show(w,h) exactly one overlay exists, placed
\* at the primary monitor's origin with the monitor's size, and the bounds
\* are (0,0,W,H) of the monitor as it is during the call; GetScreenSize
\* returns the monitor's size as it is during that call, with or without an
\* overlay, and changes nothing.
C10_ShowMeasures ==
    [][ /\ IsCall("Show") =>
              /\ live' = 1
              /\ Len(container') = 1
              /\ container'[1].x = monitor.x
              /\ container'[1].y = monitor.y
              /\ container'[1].width = monitor.width
              /\ container'[1].height = monitor.height
              /\ bounds' = <<0, 0, monitor.width, monitor.height>>
        /\ IsCall("GetScreenSize") =>
              /\ last'.ret = <<monitor.width, monitor.height>>
              /\ UNCHANGED GridState
      ]_vars

\* GetScreenSize after a Show and a change of monitor: the overlay still has
\* the size Show measured, the call returns another one
C10_Witness ==
    /\ last.op = "GetScreenSize"
    /\ container # Null
    /\ last.ret # <<screenW, screenH>>
    /\ last.ret = <<monitor.width, monitor.height>>

-----------------------------------------------------------------------------
(* C4 *)

\* C4 as stated: at most one overlay container exists, and the process
\* creates at most one virtual pointer device, whatever enable, disable and
\* calls have happened.
C4_AsStated ==
    /\ live <= 1
    /\ ndev <= 1

\* this step is disable()
IsDisable == enabled /\ ~enabled'

\* C4, amended: at most one overlay container exists, and it is the one the
\* grid holds; a GridOverlay creates its pointer device at most once, when it
\* has none, and every later call on that GridOverlay uses the same device,
\* until disable drops the GridOverlay with its device; _dragging is one flag.
C4_SingletonPerGrid ==
    /\ [](/\ live = Len(container)
          /\ live \in {0, 1}
          /\ dragging \in BOOLEAN
          /\ ~enabled => (live = 0 /\ pointer = NoDevice /\ ~dragging)
          /\ \A i \in 1..Len(last.out) : last.out[i].dev = last.out[1].dev)
    /\ [][ /\ (pointer # NoDevice /\ ~IsDisable) =>
                 (pointer' = pointer /\ ndev' = ndev)
           /\ ndev' # ndev =>
                 (pointer = NoDevice /\ ndev' = ndev + 1 /\ pointer' = ndev')
           /\ \A op \in PointerOps :
                 (IsCall(op) /\ last'.out # <<>>) =>
                     (last'.out[1].dev = pointer' /\ pointer' # NoDevice)
         ]_vars

\* after a disable and an enable, a call on the second device of the process
C4_Witness ==
    /\ ndev = 2
    /\ pointer = 2
    /\ Len(ptrCalls) = 2
    /\ last.op \in PointerOps
    /\ last.out # <<>>
    /\ ~last.attempted
    /\ live = 1

-----------------------------------------------------------------------------
(* C5 *)

\* C5 as stated: once an attempt to create the device has failed, the next
\* pointer-producing call makes no attempt to create it and emits no event.
C5_AsStated ==
    (Len(ptrCalls) = 2 /\ ptrCalls[1].effect = "threw" /\ last.op \in PointerOps) =>
        (~last.attempted /\ last.out = <<>>)

\* the calls that reach _getPointer
ReachesDevice(op) == op \in PointerOps /\ (op = "EndDrag" => dragging)

\* C5, amended: a call in which creating the device fails emits no event and
\* leaves the device absent; the failure is not remembered: every later
\* pointer-producing call that reaches the device lookup tries to create the
\* device again, and emits its events on the new device when that succeeds.
C5_FailureRetried ==
    [][ \A op \in PointerOps : IsCall(op) =>
            /\ last'.threw =>
                  (last'.attempted /\ last'.out = <<>> /\ pointer' = NoDevice
                   /\ ndev' = ndev /\ dragging' = dragging)
            /\ (pointer = NoDevice /\ ReachesDevice(op)) => last'.attempted
            /\ (last'.attempted /\ ~last'.threw) =>
                  (last'.out # <<>> /\ pointer' # NoDevice
                   /\ last'.out[1].dev = pointer')
      ]_vars

\* a call that failed to create the device, then a call that created it
C5_Witness ==
    /\ Len(ptrCalls) = 2
    /\ ptrCalls[1].effect = "threw"
    /\ ptrCalls[2].effect = "done"
    /\ last.op \in PointerOps
    /\ last.attempted
    /\ pointer # NoDevice

-----------------------------------------------------------------------------
(* C11 *)

\* C11: Update called while no overlay exists creates no overlay, raises no
\* error, does not render and leaves the bounds and everything else of the
\* grid as they were.
C11_UpdateWithoutOverlay ==
    [][ (IsCall("Update") /\ container = Null) =>
            /\ container' = Null
            /\ ~last'.threw
            /\ last'.drawn = 0
            /\ bounds' = bounds
            /\ UNCHANGED GridState
      ]_vars

\* an Update that found no overlay, after a Show and a gesture or Hide: the
\* bounds are still those of the Show, not the rectangle passed
C11_Witness ==
    /\ last.op = "Update"
    /\ ~last.shown
    /\ container = Null
    /\ bounds = <<0, 0, screenW, screenH>>
    /\ bounds # NewGrid.bounds
    /\ bounds # <<last.args.x, last.args.y, last.args.width, last.args.height>>

-----------------------------------------------------------------------------
(* C12 *)

\* C12: Update(x,y,w,h) called while an overlay exists makes the bounds
\* exactly (x,y,w,h), unclamped, renders once, and keeps the overlay (the
\* same container, at the same place, its children those rendered from the
\* new bounds) and _dragging.
C12_UpdateVerbatim ==
    [][ (IsCall("Update") /\ container # Null) =>
            /\ bounds' = <<last'.args.x, last'.args.y,
                           last'.args.width, last'.args.height>>
            /\ container' =
                   <<[container[1] EXCEPT !.children = Rendered(bounds')]>>
            /\ live' = live
            /\ dragging' = dragging
            /\ last'.drawn = 1
            /\ ~last'.threw
      ]_vars

\* an Update to a rectangle with a negative corner and a zero width, wholly
\* left of the screen, during a drag
C12_Witness ==
    /\ last.op = "Update"
    /\ last.shown
    /\ last.drag
    /\ bounds = <<-5, 700, 0, 3>>
    /\ bounds[1] + bounds[3] < 0
    /\ container # Null

-----------------------------------------------------------------------------
(* C13 *)

\* C13: Hide destroys the overlay if there is one and changes nothing
\* otherwise; it never fails, no overlay exists after it, and hiding twice
\* gives the state of hiding once.
C13_HideIdempotent ==
    /\ [](hide(hide(This)) = hide(This))
    /\ [][ IsCall("Hide") =>
              /\ container' = Null
              /\ live' = 0
              /\ ~last'.threw
              /\ live' = live - Len(container)
              /\ UNCHANGED <<bounds, screenW, screenH, pointer, dragging, ndev>>
              /\ container = Null => UNCHANGED GridState
         ]_vars

\* a Hide that found no overlay, after a Show
C13_Witness ==
    /\ last.op = "Hide"
    /\ ~last.shown
    /\ container = Null
    /\ live = 0
    /\ bounds # NewGrid.bounds

-----------------------------------------------------------------------------
(* C14 *)

\* C14: a TakeScreenshot call returns the fixed path and only adds an idle
\* source: no capture is entered during the call.  An idle source leaves the
\* main loop only by being dispatched, which enters one capture, so calls
\* and captures pair up (taken = idle + attempts), and every call is
\* eventually followed by its capture, whatever calls come in between.
C14_CaptureAfterCall ==
    /\ [](taken = idle + attempts)
    /\ [][ IsCall("TakeScreenshot") =>
              /\ last'.ret = <<Path>>
              /\ attempts' = attempts
              /\ running' = running
              /\ idle' = idle + 1
         ]_vars
    /\ [][ idle' < idle => (idle' = idle - 1 /\ attempts' = attempts + 1) ]_vars
    /\ [][ attempts' # attempts => (attempts' = attempts + 1 /\ idle' = idle - 1) ]_vars
    /\ \A k \in 1..MaxShots : (taken >= k) ~> (attempts >= k)

\* the one capture of the one TakeScreenshot call so far ran after a later
\* Show call, in an extension disabled since
C14_Witness ==
    /\ taken = 1
    /\ attempts = 1
    /\ capAfter = "Show"
    /\ ~enabled

-----------------------------------------------------------------------------
(* C15 *)

\* C15 as stated: never two captures scheduled or running at once.
C15_AsStated == idle + running <= 1

\* C15: there is no limit and no coalescing.  Every TakeScreenshot call adds
\* a capture of its own to those scheduled or running and disturbs none of
\* them; all of them write the one file at Path, which the call removes when
\* it is there and the delete succeeds.
C15_EveryCallSchedules ==
    /\ [](idle + running <= taken)
    /\ [][ IsCall("TakeScreenshot") =>
              /\ idle' + running' = idle + running + 1
              /\ running' = running
              /\ file' = IF del' = "removed" THEN "absent" ELSE file
              /\ (del' = "removed") => (file = "present")
         ]_vars

\* a second TakeScreenshot while the capture of the first waits for
\* screenshot_area: one capture running, one scheduled
C15_Witness ==
    /\ last.op = "TakeScreenshot"
    /\ taken = 2
    /\ running = 1
    /\ idle = 1
    /\ del = "removed"

-----------------------------------------------------------------------------
(* C16 *)

\* C16: TakeScreenshot never throws, whatever the delete did, returns Path
\* and schedules a capture, also after captures have failed.  A capture
\* failure only adds to the log: the grid, the drag, the device and the
\* record of the last call stay as they are.
C16_FailuresSwallowed ==
    /\ [][ IsCall("TakeScreenshot") =>
              /\ ~last'.threw
              /\ last'.ret = <<Path>>
              /\ del' \in {"missing", "removed", "failed"}
              /\ idle' = idle + 1
              /\ taken' = taken + 1
         ]_vars
    /\ [][ errors' # errors =>
              /\ errors' = errors + 1
              /\ UNCHANGED gridVars
              /\ UNCHANGED wmVars
         ]_vars

\* a TakeScreenshot made after a capture had failed, whose delete failed
\* too, and which scheduled its capture
C16_Witness ==
    /\ last.op = "TakeScreenshot"
    /\ last.logged > 0
    /\ del = "failed"
    /\ ~last.threw
    /\ idle > 0

-----------------------------------------------------------------------------
(* C17 *)

\* C17: with n workspaces and c the active one, NextWorkspace makes
\* min(c+1, n-1) active and PrevWorkspace max(c-1, 0): no wrap-around, the
\* index unchanged at the last and at the first workspace, and never
\* outside 0..n-1.
C17_NoWrap ==
    /\ [][ IsCall("NextWorkspace") =>
              /\ activeWs' = (IF activeWs + 1 <= nWorkspaces - 1
                              THEN activeWs + 1 ELSE nWorkspaces - 1)
              /\ (activeWs = nWorkspaces - 1) => (activeWs' = activeWs)
              /\ activeWs' \in 0..(nWorkspaces - 1)
              /\ nWorkspaces' = nWorkspaces
              /\ ~last'.threw
         ]_vars
    /\ [][ IsCall("PrevWorkspace") =>
              /\ activeWs' = (IF activeWs - 1 >= 0 THEN activeWs - 1 ELSE 0)
              /\ (activeWs = 0) => (activeWs' = activeWs)
              /\ activeWs' \in 0..(nWorkspaces - 1)
              /\ nWorkspaces' = nWorkspaces
              /\ ~last'.threw
         ]_vars

\* NextWorkspace called on the last of several workspaces
C17_Witness ==
    /\ last.op = "NextWorkspace"
    /\ nWorkspaces = MaxWorkspaces
    /\ activeWs = nWorkspaces - 1
    /\ nWorkspaces > 1

-----------------------------------------------------------------------------
(* C18 *)

\* C18: SwitchWorkspace(i) makes i the active workspace when 0 <= i < count;
\* for any other i it changes nothing and does not throw.  The active index,
\* and so what GetCurrentWorkspace returns, is always in 0..count-1.
C18_SwitchInRange ==
    /\ [](activeWs \in 0..(nWorkspaces - 1))
    /\ [][ IsCall("SwitchWorkspace") =>
              /\ ~last'.threw
              /\ nWorkspaces' = nWorkspaces
              /\ UNCHANGED <<windows, focus, workAreas>>
              /\ activeWs' = (IF 0 <= last'.args.index
                                 /\ last'.args.index < nWorkspaces
                              THEN last'.args.index ELSE activeWs)
         ]_vars
    /\ [][ IsCall("GetCurrentWorkspace") =>
              /\ last'.ret = <<activeWs>>
              /\ last'.ret[1] \in 0..(nWorkspaces - 1)
              /\ UNCHANGED wmVars
         ]_vars

\* SwitchWorkspace(count) on a desktop whose active workspace is not the
\* first: out of range by one, and the active workspace is still that one
C18_Witness ==
    /\ last.op = "SwitchWorkspace"
    /\ last.args.index = nWorkspaces
    /\ activeWs > 0
    /\ ~last.threw

-----------------------------------------------------------------------------
(* C19 *)

\* the window of this actor is a normal window
IsNormal(w) == w.meta /\ w.type = "NORMAL"

\* a and b are the same character, or the two cases of one letter
SameLetter(a, b) ==
    \/ a = b
    \/ \E n \in 1..Len(UpperCase) : {a, b} = {UpperCase[n], LowerCase[n]}

\* str contains s, the case of letters ignored
ContainsCI(str, s) ==
    \E off \in 0..(Len(str) - Len(s)) :
        \A k \in 1..Len(s) : SameLetter(str[off + k], s[k])

\* the string a getter returned, a missing one read as empty
Text(t) == IF t = Null THEN <<>> ELSE t[1]

\* C19: FocusWindow(s) activates the first actor in enumeration order that is
\* a normal window whose title or class contains s, case ignored, activates
\* no other window, and returns true; when there is none it returns false,
\* activates nothing and leaves the focus and the desktop as they were.
C19_FirstMatch ==
    [][ IsCall("FocusWindow") =>
          LET s == last'.args.title
              M == {i \in 1..Len(windows) :
                       /\ IsNormal(windows[i])
                       /\ \/ ContainsCI(Text(windows[i].title), s)
                          \/ ContainsCI(Text(windows[i].wmClass), s)}
          IN  IF M = {}
              THEN /\ last'.ret = <<FALSE>>
                   /\ last'.did = <<>>
                   /\ UNCHANGED wmVars
              ELSE LET f == CHOOSE i \in M : \A j \in M : i <= j
                   IN  /\ last'.ret = <<TRUE>>
                       /\ last'.did = <<Did("activate", windows[f].id)>>
                       /\ focus' = windows[f].id
                       /\ UNCHANGED <<windows, nWorkspaces, activeWs, workAreas>>
      ]_vars

\* FocusWindow("FIRE") with the panel "Fire" lowest, then the window of class
\* "FIRE", then "Firefox": the second actor got the focus
C19_Witness ==
    /\ last.op = "FocusWindow"
    /\ last.args.title = <<"F", "I", "R", "E">>
    /\ last.ret = <<TRUE>>
    /\ windows[1].type = "DOCK"
    /\ windows[2].id = 4
    /\ windows[3].id = 3
    /\ focus = 4
    /\ last.did = <<Did("activate", 4)>>

-----------------------------------------------------------------------------
(* C20 *)

\* floor(n / 2) for n >= 0: the h with 2h <= n < 2h + 2
Half(n) == CHOOSE h \in 0..n : 2 * h <= n /\ n < 2 * h + 2

\* the focused window's frame after the operator m on the desktop d
FrameAfter(m, d) == m.windows[Position(d, d.focus)].frame

\* the two tiles of a window: disjoint, adjacent, of the height of the work
\* area wa and inside it, their widths adding up to its width or one less
Halves(l, r, wa) ==
    /\ l.x + l.width = r.x
    /\ l.x + l.width <= r.x
    /\ l.y = r.y /\ l.height = r.height
    /\ wa.x <= l.x /\ r.x + r.width <= wa.x + wa.width
    /\ wa.y <= l.y /\ l.y + l.height <= wa.y + wa.height
    /\ l.width = r.width
    /\ l.width + r.width \in {wa.width, wa.width - 1}

\* C20: on a work area at (ax,ay) of size W x H, TileLeft unmaximizes the
\* focused window and then gives it the frame (ax, ay, floor(W/2), H);
\* TileRight the frame (ax + floor(W/2), ay, floor(W/2), H); no other window
\* changes.  The two frames are disjoint and adjacent, inside the work area,
\* and their widths add up to W or W - 1.
C20_Tiles ==
    /\ [][ (IsCall("TileLeft") \/ IsCall("TileRight")) /\ focus # 0 =>
              LET i == Position(Desk, focus)
                  wa == workAreas[windows[i].monitor + 1]
                  dx == IF last'.op = "TileLeft" THEN 0 ELSE Half(wa.width)
              IN  /\ windows'[i].frame =
                         [x |-> wa.x + dx, y |-> wa.y,
                          width |-> Half(wa.width), height |-> wa.height]
                  /\ ~windows'[i].maximized
                  /\ last'.did = <<Did("unmaximize", focus),
                                   Did("move_resize_frame", focus)>>
                  /\ \A j \in 1..Len(windows) : j # i => windows'[j] = windows[j]
                  /\ UNCHANGED <<focus, workAreas, nWorkspaces, activeWs>>
                  /\ ~last'.threw
         ]_vars
    /\ [](focus # 0 =>
              Halves(FrameAfter(tileLeft(Desk), Desk),
                     FrameAfter(tileRight(Desk), Desk),
                     workAreas[windows[Position(Desk, focus)].monitor + 1]))

\* "Firefox" tiled left and the window of class "FIRE" then tiled right, on
\* the work area of odd width 1919: one pixel column is left over
C20_Witness ==
    /\ last.op = "TileRight"
    /\ focus = 4
    /\ workAreas[1].width = 1919
    /\ windows[3].frame = [x |-> 0, y |-> 32, width |-> 959, height |-> 1048]
    /\ windows[4].frame = [x |-> 959, y |-> 32, width |-> 959, height |-> 1048]
    /\ windows[3].frame.width + windows[4].frame.width = workAreas[1].width - 1
    /\ last.did = <<Did("unmaximize", 4), Did("move_resize_frame", 4)>>

-----------------------------------------------------------------------------
(* C21 *)

\* the method of Meta.Window that each action on the focused window calls
FocusedActions ==
    [CloseWindow |-> <<"delete">>,
     MinimizeWindow |-> <<"minimize">>,
     MaximizeWindow |-> <<"maximize">>,
     UnmaximizeWindow |-> <<"unmaximize">>,
     FullscreenWindow |-> <<"make_fullscreen">>,
     UnfullscreenWindow |-> <<"unmake_fullscreen">>,
     TileLeft |-> <<"unmaximize", "move_resize_frame">>,
     TileRight |-> <<"unmaximize", "move_resize_frame">>]

\* C21: an action on the focused window calls its Meta.Window methods on the
\* window that has the focus when the call is made and changes no other
\* window; with no window focused it calls nothing, changes nothing of the
\* desktop and does not throw.
C21_ActsOnFocus ==
    [][ \A op \in DOMAIN FocusedActions :
          IsCall(op) =>
              /\ ~last'.threw
              /\ UNCHANGED <<focus, nWorkspaces, activeWs, workAreas>>
              /\ Len(windows') = Len(windows)
              /\ IF focus = 0
                 THEN last'.did = <<>> /\ windows' = windows
                 ELSE /\ last'.did = [k \in 1..Len(FocusedActions[op]) |->
                                         Did(FocusedActions[op][k], focus)]
                      /\ \A i \in 1..Len(windows) :
                            windows[i].id # focus => windows'[i] = windows[i]
      ]_vars

\* MinimizeWindow on the window of class "FIRE", which has the focus now,
\* after "Firefox" had it and was maximized: only the former is minimized
C21_Witness ==
    /\ last.op = "MinimizeWindow"
    /\ last.did = <<Did("minimize", 4)>>
    /\ focus = 4
    /\ Len(windows) = Len(Desktop)
    /\ windows[3].maximized /\ ~windows[3].minimized
    /\ windows[4].minimized /\ ~windows[4].maximized

\* a call made while no window had the focus, on a desktop where a window
\* had been tiled before
C21_WitnessNoFocus ==
    /\ last.op = "CloseWindow"
    /\ last.did = <<>>
    /\ focus = 0
    /\ \E i \in 1..Len(windows) : windows[i].frame.x = workAreas[1].x

-----------------------------------------------------------------------------
(* C22 *)

\* C22: a StartDrag called while _dragging is true is carried out like any
\* other: it emits a move and a primary press, no release, _dragging stays
\* true and nothing else of the grid changes.  The next EndDrag emits one
\* move and one primary release and sets _dragging false, so the presses of
\* the StartDrag calls outnumber the releases of the EndDrag calls.
C22_SecondStartDrag ==
    [][ /\ (IsCall("StartDrag") /\ dragging /\ ~last'.threw) =>
              /\ Sent(last') = <<Motion(now, last'.args.x, last'.args.y),
                                 Button(now + 5000, "PRIMARY", "PRESSED")>>
              /\ dragging'
              /\ UNCHANGED <<container, bounds, screenW, screenH, live>>
        /\ (IsCall("EndDrag") /\ LastPtr.op = "StartDrag"
                              /\ LastPtr.effect = "done" /\ LastPtr.drag) =>
              /\ Sent(last') = <<Motion(now, last'.args.x, last'.args.y),
                                 Button(now + 5000, "PRIMARY", "RELEASED")>>
              /\ ~dragging'
      ]_vars

\* a StartDrag made during a drag, so after an earlier press that no EndDrag
\* has released, and then the one EndDrag with its one release
C22_Witness ==
    /\ ptrCalls = <<[op |-> "StartDrag", effect |-> "done", drag |-> TRUE],
                    [op |-> "EndDrag", effect |-> "done", drag |-> TRUE]>>
    /\ last.op = "EndDrag"
    /\ Len(last.out) = 2
    /\ ~dragging

-----------------------------------------------------------------------------
(* C23 *)

\* floor(n / 3): the q with 3q <= n < 3q + 3
Third(n) ==
    LET a == IF n < 0 THEN -n ELSE n
    IN  CHOOSE q \in (-a - 1)..a : 3 * q <= n /\ n < 3 * q + 3

\* the smallest of three integers
Least(a, b, c) == CHOOSE m \in {a, b, c} : m <= a /\ m <= b /\ m <= c

\* the largest of two integers
Larger(a, b) == CHOOSE m \in {a, b} : m >= a /\ m >= b

\* C23: while an overlay exists its children are those of one render of the
\* current bounds (bx,by,bw,bh): 1 backdrop, 4 separators, labels 1 to 9 and
\* 4 crosshair parts, 18 in all, however many Show and Update calls came
\* before.  With cellW = floor(bw/3) and cellH = floor(bh/3), label k is
\* centred on the cell at (bx + ((k-1) mod 3) cellW, by + floor((k-1)/3)
\* cellH); the font size is max(24, min(72, floor(min(cellW,cellH)/3))), in
\* 24..72; the crosshair size is min(50, floor(min(bw,bh)/3)), at most 50.
C23_OneRender ==
    container # Null =>
        LET c == container[1].children
            bx == bounds[1]
            by == bounds[2]
            bw == bounds[3]
            bh == bounds[4]
            cellW == Third(bw)
            cellH == Third(bh)
            font == Larger(24, Least(72, Third(cellW), Third(cellH)))
            cross == Least(50, Third(bw), Third(bh))
        IN  /\ Len(c) = 18
            /\ c[1].kind = "backdrop"
            /\ <<c[1].x2, c[1].y2, c[1].w2, c[1].h2>> =
                   <<2 * bx, 2 * by, 2 * bw, 2 * bh>>
            /\ \A i \in 2..5 : c[i].kind = "line"
            /\ \A k \in 1..9 :
                  LET l == c[5 + k]
                      row == Third(k - 1)
                      col == (k - 1) - 3 * row
                  IN  /\ l.kind = "label"
                      /\ l.text = k
                      /\ l.font = font
                      /\ l.x2 = 2 * (bx + col * cellW) + cellW - font
                      /\ l.y2 = 2 * (by + row * cellH) + cellH - font
            /\ font \in 24..72
            /\ cross <= 50
            /\ \A i \in 15..16 : c[i].kind = "outline"
            /\ \A i \in 17..18 : c[i].kind = "cross"
            /\ c[17].w2 = 2 * cross /\ c[18].h2 = 2 * cross
            /\ c[15].w2 = 2 * (cross + 4) /\ c[16].h2 = 2 * (cross + 4)

\* an Update of an overlay that had been rendered by Show before, to a
\* rectangle whose cells are 33 by 66: font size 24, crosshair size 33
C23_Witness ==
    /\ last.op = "Update"
    /\ last.shown
    /\ container # Null
    /\ bounds = <<100, 50, 100, 200>>
    /\ Len(container[1].children) = 18
    /\ container[1].children[6].font = 24
    /\ container[1].children[17].w2 = 2 * 33

-----------------------------------------------------------------------------
(* C24 *)

\* C24: in every reachable state _dragging is true exactly when the primary
\* button of the virtual device is down.
C24_DragIffHeld == dragging <=> held

-----------------------------------------------------------------------------
(* C25 *)

\* C25: timestamps never go back over the stream of events of a device.  In
\* particular, when a pointer-producing call follows another one on the same
\* device at a later clock reading, its first event is not stamped earlier
\* than the last event of the call before it.
C25_StampsIncrease ==
    [][ \A op \in PointerOps :
          (/\ IsCall(op)
           /\ now > last.t0
           /\ last.out # <<>>
           /\ last'.out # <<>>
           /\ last'.out[1].dev = last.out[1].dev) =>
              last'.out[1].time >= last.out[Len(last.out)].time
      ]_vars

-----------------------------------------------------------------------------
(* C26 *)

\* the methods of the interface other than StartDrag and EndDrag
OtherOps ==
    {"Show", "Hide", "Update", "GetScreenSize", "Click", "DoubleClick",
     "RightClick", "MiddleClick", "MoveTo", "Scroll", "TakeScreenshot",
     "CloseWindow", "MinimizeWindow", "MaximizeWindow", "UnmaximizeWindow",
     "FullscreenWindow", "UnfullscreenWindow", "TileLeft", "TileRight",
     "GetWindows", "FocusWindow", "SwitchWorkspace", "NextWorkspace",
     "PrevWorkspace", "GetWorkspaceCount", "GetCurrentWorkspace"}

\* C26: of the calls of the interface only StartDrag, which sets it, and an
\* EndDrag made during a drag, which clears it, change _dragging; every other
\* call leaves it as it is, also one that hides or replaces the overlay, and
\* so does an EndDrag made outside a drag.  An EndDrag during a drag emits
\* the release whether or not the overlay is still there.
C26_DragFrame ==
    /\ [][ \A op \in OtherOps : IsCall(op) => dragging' = dragging ]_vars
    /\ [][ IsCall("StartDrag") => dragging' = (dragging \/ ~last'.threw) ]_vars
    /\ [][ IsCall("EndDrag") => dragging' = (dragging /\ last'.threw) ]_vars
    /\ [][ (IsCall("EndDrag") /\ dragging /\ ~last'.threw) =>
               Sent(last')[2] = Button(now + 5000, "PRIMARY", "RELEASED") ]_vars

\* an EndDrag that released the button of a drag with the overlay gone, on
\* a service that has taken a screenshot and minimized a window
C26_Witness ==
    /\ last.op = "EndDrag"
    /\ last.drag
    /\ ~last.shown
    /\ Len(last.out) = 2
    /\ ~dragging
    /\ ptrCalls = <<[op |-> "StartDrag", effect |-> "done", drag |-> FALSE],
                    [op |-> "EndDrag", effect |-> "done", drag |-> TRUE]>>
    /\ taken = 1
    /\ windows[3].minimized

-----------------------------------------------------------------------------
(* C27 *)

\* C27: a pointer-producing call in which the virtual device cannot be
\* obtained emits no event and leaves the overlay and _dragging as they were
\* before the call.
C27_FailureChangesNothing ==
    [][ \A op \in PointerOps :
          (IsCall(op) /\ last'.threw) =>
              /\ last'.out = <<>>
              /\ container' = container
              /\ dragging' = dragging
      ]_vars

-----------------------------------------------------------------------------
(* C28 *)

\* the events of a call that are of this kind
OfKind(c, kind) == {i \in 1..Len(c.out) : c.out[i].kind = kind}

\* C28: a Scroll with the device obtained hides the overlay and emits first
\* one move to (x,y), then max(n,0) scroll events and no button event, and
\* leaves _dragging alone; with n <= 0 it emits the move only.
C28_ScrollCount ==
    [][ (IsCall("Scroll") /\ ~last'.threw) =>
            LET n == last'.args.clicks
            IN  /\ container' = Null
                /\ last'.out # <<>>
                /\ Sent(last')[1] = Motion(now, last'.args.x, last'.args.y)
                /\ OfKind(last', "motion") = {1}
                /\ Cardinality(OfKind(last', "scroll")) = (IF n > 0 THEN n ELSE 0)
                /\ OfKind(last', "button") = {}
                /\ dragging' = dragging
                /\ held' = held
                /\ (n <= 0) => (Len(last'.out) = 1)
      ]_vars

\* a Scroll of -1 clicks made during a drag with the overlay shown: the
\* overlay is gone, one event was emitted, the drag goes on
C28_Witness ==
    /\ last.op = "Scroll"
    /\ last.args.clicks = -1
    /\ last.shown
    /\ last.drag
    /\ container = Null
    /\ Len(last.out) = 1
    /\ last.out[1].kind = "motion"
    /\ dragging

-----------------------------------------------------------------------------
(* C29 *)

\* the positions in windows of the normal windows
NormalAt == {i \in 1..Len(windows) : IsNormal(windows[i])}

\* the records of the array rs that contain s in title or class
Matching(rs, s) ==
    {k \in 1..Len(rs) : \/ ContainsCI(Text(rs[k].title), s)
                        \/ ContainsCI(Text(rs[k].wm_class), s)}

\* C29: GetWindows returns one record for each normal window and for no
\* other actor, in enumeration order, with workspace -1 for a window on no
\* workspace and focused true on the focus window only, so on at most one.
\* FocusWindow(s) returns true exactly when a record GetWindows would return
\* at that moment contains s in title or class, case ignored and a missing
\* one read as empty; the window it activates is that of the first such
\* record, and with s empty that of the first record whenever there is one.
C29_SameWindows ==
    /\ [][ IsCall("GetWindows") =>
              LET rs == last'.ret[1]
              IN  /\ Len(rs) = Cardinality(NormalAt)
                  /\ \A k \in 1..Len(rs) :
                        \E i \in NormalAt :
                           /\ Cardinality({j \in NormalAt : j <= i}) = k
                           /\ rs[k].id = windows[i].id
                           /\ rs[k].title = windows[i].title
                           /\ rs[k].wm_class = windows[i].wmClass
                           /\ rs[k].workspace =
                                  (IF windows[i].workspace = Null THEN -1
                                   ELSE windows[i].workspace[1])
                           /\ rs[k].focused = (windows[i].id = focus)
                  /\ Cardinality({k \in 1..Len(rs) : rs[k].focused}) <= 1
                  /\ UNCHANGED wmVars
         ]_vars
    /\ [][ IsCall("FocusWindow") =>
              LET rs == getWindows(Desk).ret[1]
                  s == last'.args.title
                  M == Matching(rs, s)
              IN  /\ last'.ret = <<M # {}>>
                  /\ M # {} =>
                        LET f == CHOOSE k \in M : \A j \in M : k <= j
                        IN  /\ last'.did = <<Did("activate", rs[f].id)>>
                            /\ focus' = rs[f].id
                            /\ (s = <<>>) => (f = 1)
                  /\ (s = <<>> /\ rs # <<>>) => (M # {})
         ]_vars

\* FocusWindow("") with the panel and the actor without window below the
\* two normal windows: the first record of GetWindows, the window on no
\* workspace, got the focus
C29_Witness ==
    /\ last.op = "FocusWindow"
    /\ last.args.title = <<>>
    /\ last.ret = <<TRUE>>
    /\ windows[1].id = 1
    /\ windows[2].id = 2
    /\ windows[3].id = 4
    /\ focus = 4
    /\ getWindows(Desk).ret[1][1].id = 4
    /\ getWindows(Desk).ret[1][1].workspace = -1
    /\ getWindows(Desk).ret[1][1].focused

====
